---- MODULE Spec2Model ----
(***************************************************************************)
(* Model of package graceful (vincent119/commons): Run, its options and    *)
(* the closer adapters of WithCloser / WithClosers.                        *)
(*                                                                         *)
(* One behaviour is one call of Run.  The orchestrator goroutine is the    *)
(* program counter pc; the goroutine each closer adapter spawns, the       *)
(* operating system's signal delivery and the passage of time are          *)
(* separate actions interleaved with it.                                   *)
(***************************************************************************)
EXTENDS Integers, Sequences, FiniteSets, TLC

\* ------------------------------------------------------------------ bounds
MaxCleaners == 2    \* cleaners registered by one Run
MaxTime == 2        \* clock ticks observed after startTime
MaxTimeout == 1     \* largest WithTimeout argument tried
MaxRuns == 2        \* calls of Run made one after the other

\* ------------------------------------------------------- program constants
DefaultTimeout == 30    \* defaultOptions: 30 * time.Second

\* ---------------------------------------------------------------- values
\* error values; a nil error is the record Nil
Nil == [msg |-> "nil", typ |-> "", wraps |-> ""]
Boom == [msg |-> "boom", typ |-> "", wraps |-> ""]
ErrCleanup == [msg |-> "cleanup failed", typ |-> "", wraps |-> ""]
ErrClose == [msg |-> "close failed", typ |-> "", wraps |-> ""]
DeadlineExceeded == [msg |-> "context deadline exceeded", typ |-> "", wraps |-> ""]
Canceled == [msg |-> "context canceled", typ |-> "", wraps |-> ""]
\* what srv.ListenAndServe returns: http.ErrServerClosed after a shutdown,
\* any other error when the server failed
ErrServerClosed == [msg |-> "http: Server closed", typ |-> "", wraps |-> ""]
ErrListen == [msg |-> "listen failed", typ |-> "", wraps |-> ""]

\* the caller's resources: context-aware cleaner functions and io.Closers
NilArg == "nil"
CleanerFns == {"f1"}
Closers == {"r1", "r2"}
TimeoutValues == (0 - 1)..MaxTimeout

\* the element WithCleanup appends: the caller's function itself
FnCleaner(c) == [kind |-> "fn", id |-> c]
\* the element WithCloser / WithClosers append: the adapter closure over c
CloserAdapter(c) == [kind |-> "closer", id |-> c]

VARIABLES
    pc,             \* position of the goroutine that called Run
    o,              \* *options: shutdownTimeout, cleaners (the logger is left out)
    ctx,            \* signal.NotifyContext: [armed, done]
    task,           \* "notCalled", "running", "returned"
    taskCalls,      \* number of invocations of task
    taskCtx,        \* the context the task was handed
    err,            \* err := task(ctx)
    shutdownCtx,    \* context.WithTimeout: [created, start, timeout, cancelled]
    i,              \* loop index of the cleanup loop (1-based)
    cur,            \* what the running cleaner is doing: "none", "fn", "select"
    cleanupErrors,  \* var cleanupErrors []error
    started,        \* indices of the cleaners called, in call order
    finished,       \* [idx, res] of the cleaners that returned, in return order
    closeState,     \* per cleaner index: the adapter goroutine's Close call
    doneCh,         \* per cleaner index: the adapter's channel done (capacity 1)
    early,          \* the running adapter's Close returned while shutdownCtx was not done
    now,            \* time since startTime
    result,         \* the value Run returned
    opt,            \* the option the options loop applied last, NoOpt outside the loop
    closeAt,        \* per cleaner index: the time at which the Close still running was called
    http            \* HTTPTask(srv): the server goroutine, errCh and the task's select

vars == <<pc, o, ctx, task, taskCalls, taskCtx, err, shutdownCtx, i, cur,
          cleanupErrors, started, finished, closeState, doneCh, early,
          now, result, opt, closeAt, http>>

optVars == <<ctx, task, taskCalls, taskCtx, err, shutdownCtx, i, cur,
             cleanupErrors, started, finished, closeState, doneCh, early,
             now, result, closeAt, http>>

\* ------------------------------------------------------------- options.go
defaultOptions ==
    [shutdownTimeout |-> DefaultTimeout, cleaners |-> <<>>]

\* bug: the timeouts of several WithTimeout options add up
WithTimeoutAdds(d, opts) == [opts EXCEPT !.shutdownTimeout = @ + d]

WithTimeout(d, opts) == [opts EXCEPT !.shutdownTimeout = d]

\* bug: a cleaner that is already registered is not registered again
WithCleanupDedup(c, opts) ==
    IF c # NilArg /\ \A k \in 1..Len(opts.cleaners) : opts.cleaners[k] # FnCleaner(c)
    THEN [opts EXCEPT !.cleaners = Append(@, FnCleaner(c))]
    ELSE opts

WithCleanup(c, opts) ==
    IF c # NilArg
    THEN [opts EXCEPT !.cleaners = Append(@, FnCleaner(c))]
    ELSE opts

\* bug: the nil check is missing
WithCloserNoNilCheck(c, opts) ==
    [opts EXCEPT !.cleaners = Append(@, CloserAdapter(c))]

WithCloser(c, opts) ==
    IF c # NilArg
    THEN [opts EXCEPT !.cleaners = Append(@, CloserAdapter(c))]
    ELSE opts

\* bug: every adapter closes over the loop variable itself, which holds
\* the last element of closers once the loop is over
RECURSIVE WithClosersCapture(_, _)
WithClosersCapture(closers, opts) ==
    IF closers = <<>>
    THEN opts
    ELSE LET n == Len(closers)
             last == closers[n]
             init == WithClosersCapture(SubSeq(closers, 1, n - 1), opts)
             fix == [init EXCEPT !.cleaners =
                        [k \in 1..Len(@) |->
                            IF k > Len(opts.cleaners) THEN CloserAdapter(last) ELSE @[k]]]
         IN  IF last # NilArg
             THEN [fix EXCEPT !.cleaners = Append(@, CloserAdapter(last))]
             ELSE fix

RECURSIVE WithClosers(_, _)
WithClosers(closers, opts) ==
    IF closers = <<>>
    THEN opts
    ELSE LET c == Head(closers)
             next == IF c # NilArg
                     THEN [opts EXCEPT !.cleaners = Append(@, CloserAdapter(c))]
                     ELSE opts
         IN  WithClosers(Tail(closers), next)

\* bug: the cause is formatted with %v, so the error wraps nothing
TimeoutErrorNoWrap(c, cause) == [msg |-> "timed out", typ |-> c, wraps |-> ""]

\* the error a timed-out adapter returns:
\* fmt.Errorf("closer (%T) timed out: %w", c, ctx.Err())
TimeoutError(c, cause) == [msg |-> "timed out", typ |-> c, wraps |-> cause.msg]

\* --------------------------------------------------------------- contexts
\* bug: shutdownCtx is derived from the signal context instead of
\* context.Background(), so it is done as soon as the signal context is
ShutdownDoneChild ==
    /\ shutdownCtx.created
    /\ \/ now >= shutdownCtx.start + shutdownCtx.timeout
       \/ shutdownCtx.cancelled
       \/ ctx.done

\* shutdownCtx.Done() is closed: the deadline has passed, or cancel() ran
ShutdownDone ==
    /\ shutdownCtx.created
    /\ \/ now >= shutdownCtx.start + shutdownCtx.timeout
       \/ shutdownCtx.cancelled

\* shutdownCtx.Err()
ShutdownErr ==
    IF ~ShutdownDone THEN Nil
    ELSE IF now >= shutdownCtx.start + shutdownCtx.timeout THEN DeadlineExceeded
    ELSE Canceled

\* ------------------------------------------------------------ errors.Join
RECURSIVE DropNil(_)
DropNil(errs) ==
    IF errs = <<>> THEN <<>>
    ELSE IF Head(errs) = Nil THEN DropNil(Tail(errs))
    ELSE <<Head(errs)>> \o DropNil(Tail(errs))

\* a Run result: the nil error ...
NoError == [joined |-> FALSE, errs |-> <<>>]
\* ... an error value returned as it is ...
Plain(e) == IF e = Nil THEN NoError ELSE [joined |-> FALSE, errs |-> <<e>>]
\* ... or errors.Join(errs...): nil values discarded, nil when none is left
Join(errs) ==
    IF DropNil(errs) = <<>> THEN NoError
    ELSE [joined |-> TRUE, errs |-> DropNil(errs)]

\* ------------------------------------------------------------- manager.go
\* for i := len(o.cleaners) - 1; i >= 0; i--   (indices are 1-based here)
LoopStart(cleaners) == Len(cleaners)
\* bug: the loop stops at the first cleaner that failed (fail-fast)
LoopCondFailFast(k) == k >= 1 /\ cleanupErrors = <<>>
LoopCond(k) == k >= 1
LoopNext(k) == k - 1

\* bug: the loop walks the list forwards (for _, c := range o.cleaners)
SlotForward(k) == Len(o.cleaners) - k + 1

\* c := o.cleaners[i]: the element of o.cleaners that loop index k selects
Slot(k) == k

\* if cErr != nil { cleanupErrors = append(cleanupErrors, cErr) }
Collect(errs, cErr) == IF cErr # Nil THEN Append(errs, cErr) ELSE errs

\* bug: cleanup errors swallow the task's error
AggregateDropTask(taskErr, errs) ==
    IF Len(errs) > 0 THEN Join(errs) ELSE Plain(taskErr)

\* bug: the result is always built as a joined error value, which is a
\* non-nil error even when nothing failed
AggregateNonNil(taskErr, errs) ==
    [joined |-> TRUE, errs |-> DropNil(<<taskErr>> \o errs)]

\* bug: the task's error is always passed through errors.Join
AggregateAlwaysJoin(taskErr, errs) == Join(<<taskErr>> \o errs)

\* the return value of Run, from the task's error and the collected errors
Aggregate(taskErr, errs) ==
    IF Len(errs) > 0
    THEN IF taskErr # Nil THEN Join(<<taskErr>> \o errs) ELSE Join(errs)
    ELSE Plain(taskErr)

\* the context handed to context.WithTimeout as parent: context.Background()
\* is never done, so only the deadline and cancel() end shutdownCtx
NewShutdownCtx(d) ==
    [created |-> TRUE, start |-> now, timeout |-> d, cancelled |-> FALSE]

NoCtx == [created |-> FALSE, start |-> 0, timeout |-> 0, cancelled |-> FALSE]

Indices == 1..MaxCleaners

\* the state of one HTTPTask(srv) call; before the call there is no server
\* goroutine and no channel
NoServer == [pc |-> "idle", srv |-> "idle", srvErr |-> Nil, errCh |-> <<>>,
             closed |-> FALSE]

\* an Option value: the constructor that made it and its argument
Option(kind, d, cs) == [kind |-> kind, d |-> d, cs |-> cs]
NoOpt == Option("none", 0, <<>>)

Init ==
    /\ pc = "options"
    /\ o = defaultOptions
    /\ ctx = [armed |-> FALSE, done |-> FALSE]
    /\ task = "notCalled"
    /\ taskCalls = 0
    /\ taskCtx = "none"
    /\ err = Nil
    /\ shutdownCtx = NoCtx
    /\ i = 0
    /\ cur = "none"
    /\ cleanupErrors = <<>>
    /\ started = <<>>
    /\ finished = <<>>
    /\ closeState = [k \in Indices |-> "idle"]
    /\ doneCh = [k \in Indices |-> <<>>]
    /\ early = FALSE
    /\ now = 0
    /\ result = NoError
    /\ opt = NoOpt
    /\ closeAt = [k \in Indices |-> 0]
    /\ http = NoServer

\* for _, opt := range opts { opt(o) }: one iteration, the option being opt
Apply(next) ==
    /\ pc = "options"
    /\ Len(next.cleaners) <= MaxCleaners
    /\ o' = next
    /\ UNCHANGED pc
    /\ UNCHANGED optVars

ApplyWithTimeout ==
    \E d \in TimeoutValues :
        Apply(WithTimeout(d, o)) /\ opt' = Option("WithTimeout", d, <<>>)

ApplyWithCleanup ==
    \E c \in CleanerFns \cup {NilArg} :
        Apply(WithCleanup(c, o)) /\ opt' = Option("WithCleanup", 0, <<c>>)

ApplyWithCloser ==
    \E c \in Closers \cup {NilArg} :
        Apply(WithCloser(c, o)) /\ opt' = Option("WithCloser", 0, <<c>>)

\* nil entries register nothing, so a list may be longer than MaxCleaners
CloserLists ==
    UNION {[1..n -> Closers \cup {NilArg}] : n \in 0..(MaxCleaners + 1)}

ApplyWithClosers ==
    \E cs \in CloserLists :
        Apply(WithClosers(cs, o)) /\ opt' = Option("WithClosers", 0, cs)

\* ctx, stop := signal.NotifyContext(context.Background(), SIGINT, SIGTERM)
NotifyContext ==
    /\ pc = "options"
    /\ ctx' = [armed |-> TRUE, done |-> FALSE]
    /\ pc' = "callTask"
    /\ UNCHANGED http
    /\ UNCHANGED <<o, task, taskCalls, taskCtx, err, shutdownCtx, i, cur,
                   cleanupErrors, started, finished, closeState, doneCh,
                   early, now, result, closeAt>>
    /\ opt' = NoOpt

\* startTime := time.Now(); err := task(ctx): the call
CallTask ==
    /\ pc = "callTask"
    /\ task' = "running"
    /\ taskCalls' = taskCalls + 1
    /\ taskCtx' = "signal"
    /\ pc' = "waitTask"
    /\ UNCHANGED http
    /\ UNCHANGED <<o, ctx, err, shutdownCtx, i, cur, cleanupErrors,
                   started, finished, closeState, doneCh, early, now, result, opt,
                   closeAt>>

\* bug: a task that failed is called again
TaskReturnRetry ==
    /\ pc = "waitTask"
    /\ task = "running"
    /\ \E e \in {Nil, Boom} :
          /\ err' = e
          /\ IF e # Nil
             THEN task' = "notCalled" /\ pc' = "callTask"
             ELSE task' = "returned" /\ pc' = "cleanup"
    /\ UNCHANGED http
    /\ UNCHANGED <<o, ctx, taskCalls, taskCtx, shutdownCtx, i, cur,
                   cleanupErrors, started, finished, closeState, doneCh,
                   early, now, result, opt,
                   closeAt>>

\* err := task(ctx): the task returns e, Run logs it and goes on to cleanup
TaskReturn ==
    /\ pc = "waitTask"
    /\ task = "running"
    /\ \E e \in {Nil, Boom} : err' = e
    /\ task' = "returned"
    /\ pc' = "cleanup"
    /\ UNCHANGED http
    /\ UNCHANGED <<o, ctx, taskCalls, taskCtx, shutdownCtx, i, cur,
                   cleanupErrors, started, finished, closeState, doneCh,
                   early, now, result, opt,
                   closeAt>>

\* bug: Run selects on ctx.Done() and leaves the task behind on a signal
SignalEndsRunning ==
    /\ ctx.armed
    /\ ~ctx.done
    /\ ctx' = [ctx EXCEPT !.done = TRUE]
    /\ pc' = IF pc = "waitTask" THEN "cleanup" ELSE pc
    /\ UNCHANGED http
    /\ UNCHANGED <<o, task, taskCalls, taskCtx, err, shutdownCtx, i,
                   cur, cleanupErrors, started, finished, closeState, doneCh,
                   early, now, result, opt,
                   closeAt>>

\* bug: a signal during cleanup also cancels the shutdown context
SignalCancelsCleanup ==
    /\ ctx.armed
    /\ ~ctx.done
    /\ ctx' = [ctx EXCEPT !.done = TRUE]
    /\ shutdownCtx' = [shutdownCtx EXCEPT !.cancelled = shutdownCtx.created]
    /\ UNCHANGED http
    /\ UNCHANGED <<pc, o, task, taskCalls, taskCtx, err, i,
                   cur, cleanupErrors, started, finished, closeState, doneCh,
                   early, now, result, opt, closeAt>>

\* SIGINT or SIGTERM arrives while the signal context is armed
Signal ==
    /\ ctx.armed
    /\ ~ctx.done
    /\ ctx' = [ctx EXCEPT !.done = TRUE]
    /\ UNCHANGED http
    /\ UNCHANGED <<pc, o, task, taskCalls, taskCtx, err, shutdownCtx, i,
                   cur, cleanupErrors, started, finished, closeState, doneCh,
                   early, now, result, opt,
                   closeAt>>

\* bug: the shutdown window is opened as soon as the signal context is done
BeginCleanupOnSignal ==
    /\ \/ pc = "cleanup"
       \/ pc = "waitTask" /\ ctx.done
    /\ shutdownCtx' = [created |-> TRUE, start |-> now,
                       timeout |-> o.shutdownTimeout, cancelled |-> FALSE]
    /\ cleanupErrors' = <<>>
    /\ i' = Len(o.cleaners)
    /\ pc' = "loop"
    /\ UNCHANGED http
    /\ UNCHANGED <<o, ctx, task, taskCalls, taskCtx, err, cur, started,
                   finished, closeState, doneCh, early, now, result, opt,
                   closeAt>>

\* shutdownCtx, cancel := context.WithTimeout(context.Background(), timeout)
\* var cleanupErrors []error; i := len(o.cleaners) - 1
BeginCleanup ==
    /\ pc = "cleanup"
    /\ shutdownCtx' = NewShutdownCtx(o.shutdownTimeout)
    /\ cleanupErrors' = <<>>
    /\ i' = LoopStart(o.cleaners)
    /\ pc' = "loop"
    /\ UNCHANGED http
    /\ UNCHANGED <<o, ctx, task, taskCalls, taskCtx, err, cur, started,
                   finished, closeState, doneCh, early, now, result, opt,
                   closeAt>>

\* bug: the cleaner is started with go c(shutdownCtx) and the loop goes on
CallCleanerAsync ==
    /\ pc = "loop"
    /\ LoopCond(i)
    /\ started' = Append(started, Slot(i))
    /\ IF o.cleaners[Slot(i)].kind = "closer"
       THEN /\ closeState' = [closeState EXCEPT ![Slot(i)] = "running"]
            /\ closeAt' = [closeAt EXCEPT ![Slot(i)] = now]
       ELSE UNCHANGED <<closeState, closeAt>>
    /\ i' = LoopNext(i)
    /\ UNCHANGED http
    /\ UNCHANGED <<pc, o, ctx, task, taskCalls, taskCtx, err, shutdownCtx, cur,
                   doneCh, cleanupErrors, finished, early, now, result, opt>>

\* bug: every cleaner gets a timeout context of its own, counted from its call
CallCleanerOwnBudget ==
    /\ pc = "loop"
    /\ LoopCond(i)
    /\ started' = Append(started, Slot(i))
    /\ shutdownCtx' = [shutdownCtx EXCEPT !.start = now]
    /\ IF o.cleaners[Slot(i)].kind = "closer"
       THEN /\ cur' = "select"
            /\ closeState' = [closeState EXCEPT ![Slot(i)] = "running"]
            /\ doneCh' = [doneCh EXCEPT ![Slot(i)] = <<>>]
            /\ closeAt' = [closeAt EXCEPT ![Slot(i)] = now]
       ELSE /\ cur' = "fn"
            /\ UNCHANGED <<closeState, doneCh, closeAt>>
    /\ pc' = "inCleaner"
    /\ UNCHANGED http
    /\ UNCHANGED <<o, ctx, task, taskCalls, taskCtx, err, i,
                   cleanupErrors, finished, early, now, result, opt>>

\* bug: an adapter whose context is already done does not start Close
CallCleanerChecksCtx ==
    /\ pc = "loop"
    /\ LoopCond(i)
    /\ started' = Append(started, Slot(i))
    /\ IF o.cleaners[Slot(i)].kind = "closer"
       THEN /\ cur' = "select"
            /\ doneCh' = [doneCh EXCEPT ![Slot(i)] = <<>>]
            /\ IF ShutdownDone
               THEN UNCHANGED <<closeState, closeAt>>
               ELSE /\ closeState' = [closeState EXCEPT ![Slot(i)] = "running"]
                    /\ closeAt' = [closeAt EXCEPT ![Slot(i)] = now]
       ELSE /\ cur' = "fn"
            /\ UNCHANGED <<closeState, doneCh, closeAt>>
    /\ pc' = "inCleaner"
    /\ UNCHANGED http
    /\ UNCHANGED <<o, ctx, task, taskCalls, taskCtx, err, shutdownCtx, i,
                   cleanupErrors, finished, early, now, result, opt>>

\* c := o.cleaners[i]; c(shutdownCtx): the call.  An adapter makes its
\* channel and starts the goroutine that calls Close before it selects.
CallCleaner ==
    /\ pc = "loop"
    /\ LoopCond(i)
    /\ started' = Append(started, Slot(i))
    /\ IF o.cleaners[Slot(i)].kind = "closer"
       THEN /\ cur' = "select"
            /\ closeState' = [closeState EXCEPT ![Slot(i)] = "running"]
            /\ doneCh' = [doneCh EXCEPT ![Slot(i)] = <<>>]
            /\ closeAt' = [closeAt EXCEPT ![Slot(i)] = now]
       ELSE /\ cur' = "fn"
            /\ UNCHANGED <<closeState, doneCh, closeAt>>
    /\ pc' = "inCleaner"
    /\ UNCHANGED http
    /\ UNCHANGED <<o, ctx, task, taskCalls, taskCtx, err, shutdownCtx, i,
                   cleanupErrors, finished, early, now, result, opt>>

\* the rest of the loop body once the cleaner has returned cErr, and i--
AfterCleaner(cErr) ==
    /\ cleanupErrors' = Collect(cleanupErrors, cErr)
    /\ finished' = Append(finished, [idx |-> Slot(i), res |-> cErr, closedFirst |-> early])
    /\ early' = FALSE
    /\ i' = LoopNext(i)
    /\ cur' = "none"
    /\ pc' = "loop"
    /\ UNCHANGED http
    /\ UNCHANGED <<o, ctx, task, taskCalls, taskCtx, err, shutdownCtx,
                   started, closeState, now, result, opt,
                   closeAt>>

\* what a context-aware cleaner may return: success, an error of its own,
\* or ctx.Err() once its context is done
FnResults == {Nil, ErrCleanup} \cup (IF ShutdownDone THEN {ShutdownErr} ELSE {})

CleanerReturn ==
    /\ pc = "inCleaner"
    /\ cur = "fn"
    /\ \E r \in FnResults : AfterCleaner(r)
    /\ UNCHANGED doneCh

\* bug: done is unbuffered (make(chan error)), so the send needs the adapter
\* to be receiving
CloseReturnUnbuffered(k) ==
    /\ closeState[k] = "running"
    /\ pc = "inCleaner"
    /\ cur = "select"
    /\ k = Slot(i)
    /\ Len(doneCh[k]) < 1
    /\ \E r \in {Nil, ErrClose} : doneCh' = [doneCh EXCEPT ![k] = Append(@, r)]
    /\ closeState' = [closeState EXCEPT ![k] = "returned"]
    /\ closeAt' = [closeAt EXCEPT ![k] = 0]
    /\ early' = ~ShutdownDone
    /\ UNCHANGED http
    /\ UNCHANGED <<pc, o, ctx, task, taskCalls, taskCtx, err,
                   shutdownCtx, i, cur, cleanupErrors, started, finished,
                   now, result, opt>>

\* go func() { done <- c.Close() }(): Close returns r and r is sent
CloseReturnOf(k) ==
    /\ closeState[k] = "running"
    /\ Len(doneCh[k]) < 1
    /\ \E r \in {Nil, ErrClose} : doneCh' = [doneCh EXCEPT ![k] = Append(@, r)]
    /\ closeState' = [closeState EXCEPT ![k] = "returned"]
    /\ closeAt' = [closeAt EXCEPT ![k] = 0]
    /\ early' = IF k = Slot(i) /\ cur = "select" THEN ~ShutdownDone ELSE early
    /\ UNCHANGED http
    /\ UNCHANGED <<pc, o, ctx, task, taskCalls, taskCtx, err,
                   shutdownCtx, i, cur, cleanupErrors, started, finished,
                   now, result, opt>>

CloseReturn == \E k \in Indices : CloseReturnOf(k)

\* bug: the adapter receives Close's result and drops it: <-done; return nil
AdapterReceiveDrops ==
    /\ pc = "inCleaner"
    /\ cur = "select"
    /\ doneCh[Slot(i)] # <<>>
    /\ doneCh' = [doneCh EXCEPT ![Slot(i)] = Tail(@)]
    /\ AfterCleaner(Nil)

\* The adapter's select is one step, taken at some moment after the goroutine
\* was started: it takes a case that is ready at that moment, and when both
\* are ready (Close's result is in done and ctx.Done() is closed) either one.
\* select { case err := <-done: return err ... }
AdapterReceive ==
    /\ pc = "inCleaner"
    /\ cur = "select"
    /\ doneCh[Slot(i)] # <<>>
    /\ doneCh' = [doneCh EXCEPT ![Slot(i)] = Tail(@)]
    /\ AfterCleaner(Head(doneCh[Slot(i)]))

\* bug: the adapter gives up without waiting for ctx.Done()
AdapterGiveUp ==
    /\ pc = "inCleaner"
    /\ cur = "select"
    /\ AfterCleaner(TimeoutError(o.cleaners[Slot(i)].id, DeadlineExceeded))
    /\ UNCHANGED doneCh

\* bug: after the deadline the adapter still waits for Close to finish
\* before it reports the timeout
AdapterTimeoutAfterClose ==
    /\ pc = "inCleaner"
    /\ cur = "select"
    /\ ShutdownDone
    /\ closeState[Slot(i)] = "returned"
    /\ AfterCleaner(TimeoutError(o.cleaners[Slot(i)].id, ShutdownErr))
    /\ UNCHANGED doneCh

\* bug: the adapter waits on done alone: return <-done
AdapterOnlyDone ==
    /\ pc = "inCleaner"
    /\ cur = "select"
    /\ doneCh[Slot(i)] # <<>>
    /\ ShutdownDone
    /\ doneCh' = [doneCh EXCEPT ![Slot(i)] = Tail(@)]
    /\ AfterCleaner(Head(doneCh[Slot(i)]))

\* bug: the manager gives up on any cleaner, adapter or not, once the
\* shutdown context is done
AdapterTimeoutAny ==
    /\ pc = "inCleaner"
    /\ ShutdownDone
    /\ AfterCleaner(TimeoutError(o.cleaners[Slot(i)].id, ShutdownErr))
    /\ UNCHANGED doneCh

\* bug: on ctx.Done() the adapter returns nil
AdapterTimeoutSilent ==
    /\ pc = "inCleaner"
    /\ cur = "select"
    /\ ShutdownDone
    /\ AfterCleaner(Nil)
    /\ UNCHANGED doneCh

\* select { ... case <-ctx.Done(): return fmt.Errorf("... timed out: %w") }
AdapterTimeout ==
    /\ pc = "inCleaner"
    /\ cur = "select"
    /\ ShutdownDone
    /\ AfterCleaner(TimeoutError(o.cleaners[Slot(i)].id, ShutdownErr))
    /\ UNCHANGED doneCh

\* bug: stop() is not deferred, the signal context stays armed
ReturnNoStop ==
    /\ pc = "loop"
    /\ ~LoopCond(i)
    /\ result' = Aggregate(err, cleanupErrors)
    /\ shutdownCtx' = [shutdownCtx EXCEPT !.cancelled = TRUE]
    /\ pc' = "done"
    /\ UNCHANGED http
    /\ UNCHANGED <<o, ctx, task, taskCalls, taskCtx, err, i, cur,
                   cleanupErrors, started, finished, closeState, doneCh,
                   early, now, opt, closeAt>>

\* bug: returning tears down the Close calls that are still running
ReturnAbortsCloses ==
    /\ pc = "loop"
    /\ ~LoopCond(i)
    /\ result' = Aggregate(err, cleanupErrors)
    /\ shutdownCtx' = [shutdownCtx EXCEPT !.cancelled = TRUE]
    /\ ctx' = [armed |-> FALSE, done |-> TRUE]
    /\ closeState' = [k \in Indices |->
                        IF closeState[k] = "running" THEN "aborted" ELSE closeState[k]]
    /\ pc' = "done"
    /\ UNCHANGED http
    /\ UNCHANGED <<o, task, taskCalls, taskCtx, err, i, cur,
                   cleanupErrors, started, finished, doneCh,
                   early, now, opt, closeAt>>

\* the loop is over: return the aggregate; deferred cancel() and stop() run
Return ==
    /\ pc = "loop"
    /\ ~LoopCond(i)
    /\ result' = Aggregate(err, cleanupErrors)
    /\ shutdownCtx' = [shutdownCtx EXCEPT !.cancelled = TRUE]
    /\ ctx' = [armed |-> FALSE, done |-> TRUE]
    /\ pc' = "done"
    /\ UNCHANGED http
    /\ UNCHANGED <<o, task, taskCalls, taskCtx, err, i, cur,
                   cleanupErrors, started, finished, closeState, doneCh,
                   early, now, opt,
                   closeAt>>

\* bug: a watchdog makes Run go on to cleanup when time passes after the
\* signal while the task is still running
TickWatchdog ==
    /\ pc \in {"waitTask", "cleanup", "loop", "inCleaner"}
    /\ now < MaxTime
    /\ now' = now + 1
    /\ pc' = IF pc = "waitTask" /\ ctx.done THEN "cleanup" ELSE pc
    /\ UNCHANGED http
    /\ UNCHANGED <<o, ctx, task, taskCalls, taskCtx, err, shutdownCtx,
                   i, cur, cleanupErrors, started, finished, closeState, doneCh,
                   early, result, opt, closeAt>>

\* time passes while Run is between startTime and its return
Tick ==
    /\ pc \in {"waitTask", "cleanup", "loop", "inCleaner"}
    /\ now < MaxTime
    /\ now' = now + 1
    /\ UNCHANGED http
    /\ UNCHANGED <<pc, o, ctx, task, taskCalls, taskCtx, err, shutdownCtx,
                   i, cur, cleanupErrors, started, finished, closeState, doneCh,
                   early, result, opt,
                   closeAt>>

Next ==
    \/ ApplyWithTimeout
    \/ ApplyWithCleanup
    \/ ApplyWithCloser
    \/ ApplyWithClosers
    \/ NotifyContext
    \/ CallTask
    \/ TaskReturn
    \/ Signal
    \/ BeginCleanup
    \/ CallCleaner
    \/ CleanerReturn
    \/ CloseReturn
    \/ AdapterReceive
    \/ AdapterTimeout
    \/ Return
    \/ Tick

Spec == Init /\ [][Next]_vars

\* ------------------------------------------------------------ properties
Registered == Len(o.cleaners)

\* the phases of a Run
Phase ==
    CASE pc \in {"options", "callTask"} -> "Starting"
      [] pc = "waitTask" -> "Running"
      [] pc \in {"cleanup", "loop", "inCleaner"} -> "Cleaning"
      [] OTHER -> "Done"

PhaseSteps ==
    {<<"Starting", "Running">>, <<"Running", "Cleaning">>, <<"Cleaning", "Done">>}

\* the non-nil results of the cleaners, in the order the cleaners returned
RECURSIVE Failures(_)
Failures(fin) ==
    IF fin = <<>> THEN <<>>
    ELSE IF Head(fin).res = Nil THEN Failures(Tail(fin))
    ELSE <<Head(fin).res>> \o Failures(Tail(fin))

AllSucceeded == \A k \in 1..Len(finished) : finished[k].res = Nil

Calls(c) == Cardinality({k \in 1..Len(started) : started[k] = c})

\* C1: the cleaners are called in exactly the reverse of registration order:
\* the k-th cleaner called is the k-th from the end of the list, a cleaner
\* is called only when every later-registered one has been called and has
\* returned, and a completed Run has called all of them, last to first.
C1_LIFO ==
    /\ \A k \in 1..Len(started) :
          /\ started[k] = Registered - k + 1
          /\ \A j \in (started[k] + 1)..Registered :
                \E m \in 1..Len(finished) : finished[m].idx = j
    /\ pc = "done" => started = [k \in 1..Registered |-> Registered - k + 1]

C1_Witness ==
    /\ pc = "done"
    /\ Registered >= 2
    /\ o.cleaners[1].kind # o.cleaners[2].kind
    /\ Len(started) = Registered

\* C2: cleanup is total: in a completed Run every registered cleaner has been
\* called exactly once, whatever the cleaners before it returned, and the
\* number of calls is the number of registered cleaners.
C2_Total ==
    /\ \A c \in 1..Registered : Calls(c) <= 1
    /\ pc = "done" =>
          /\ Len(started) = Registered
          /\ Len(finished) = Registered
          /\ \A c \in 1..Registered : Calls(c) = 1

C2_Witness ==
    /\ pc = "done"
    /\ Registered >= 2
    /\ finished[1].res # Nil
    /\ Len(started) = Registered

\* C3: the errors in Run's result are the task's error, if any, followed by
\* every non-nil cleaner result in the order the cleaners ran; none is
\* dropped and none is added.
C3_JoinAll ==
    pc = "done" =>
        result.errs = (IF err # Nil THEN <<err>> ELSE <<>>) \o Failures(finished)

C3_Witness ==
    /\ pc = "done"
    /\ err # Nil
    /\ Len(Failures(finished)) >= 2
    /\ Failures(finished)[1] # Failures(finished)[2]

\* C4: when the task and every cleaner succeed, Run returns nil.
C4_NilOnSuccess ==
    (pc = "done" /\ err = Nil /\ AllSucceeded) => result = NoError

C4_Witness ==
    /\ pc = "done"
    /\ err = Nil
    /\ Registered >= 2
    /\ Len(finished) = Registered
    /\ AllSucceeded

\* C5: when the task returns E and every cleaner succeeds, every cleaner has
\* been called and Run returns E itself, not a joined value.
C5_TaskErrorItself ==
    (pc = "done" /\ err # Nil /\ AllSucceeded) =>
        /\ result = [joined |-> FALSE, errs |-> <<err>>]
        /\ Len(started) = Registered

C5_Witness ==
    /\ pc = "done"
    /\ err = Boom
    /\ Registered >= 1
    /\ Len(finished) = Registered
    /\ AllSucceeded

\* C6: the task is called at most once, exactly once as soon as Run has
\* reached it, and with the signal context; it is not called again after it
\* returned an error.
C6_TaskOnce ==
    /\ taskCalls <= 1
    /\ Phase # "Starting" => (taskCalls = 1 /\ taskCtx = "signal")
    /\ task = "notCalled" => (taskCalls = 0 /\ err = Nil)

C6_Witness ==
    /\ pc = "done"
    /\ err = Boom
    /\ taskCalls = 1

\* C7: the phases follow one another as Starting, Running, Cleaning, Done,
\* none is entered again, and while the task has not returned no cleaner
\* has been called and the shutdown context does not exist.
C7_Phases ==
    /\ [][Phase' = Phase \/ <<Phase, Phase'>> \in PhaseSteps]_vars
    /\ [](task # "returned" =>
            (started = <<>> /\ ~shutdownCtx.created /\ Phase # "Cleaning"))

C7_Witness ==
    /\ Phase = "Done"
    /\ task = "returned"
    /\ Len(started) >= 1
    /\ shutdownCtx.created

\* C8 as stated: once the signal context is done while the task is still
\* running, Run does not wait for the task: the shutdown window is open or
\* Run can open it.
C8_Original ==
    (task = "running" /\ ctx.done) =>
        (shutdownCtx.created \/ ENABLED BeginCleanup)

\* C8 amended: Running ends only by the task returning; a signal that
\* arrives while the task runs leaves Run waiting, and the shutdown window
\* is opened after the task has returned, at the time it is opened.
C8_RunningEndsAtTaskReturn ==
    /\ [][(Phase = "Running" /\ Phase' # "Running") => task' = "returned"]_vars
    /\ [][(~shutdownCtx.created /\ shutdownCtx'.created) =>
            (task = "returned" /\ shutdownCtx'.start = now)]_vars
    /\ []((task = "running" /\ ctx.done) => ~ENABLED BeginCleanup)

C8_Witness ==
    /\ task = "running"
    /\ ctx.done
    /\ Phase = "Running"
    /\ now = MaxTime

\* C9: the shutdown context is fresh and independent of the signal context:
\* its window starts when it is created in the Cleaning phase, with a
\* positive timeout it is not done at that moment even if the signal
\* context is, and the arrival of a signal never makes it done.
C9_FreshShutdownCtx ==
    /\ [][(~shutdownCtx.created /\ shutdownCtx'.created) =>
            /\ pc = "cleanup"
            /\ Phase' = "Cleaning"
            /\ started' = <<>>
            /\ shutdownCtx'.start = now'
            /\ shutdownCtx'.timeout = o.shutdownTimeout
            /\ (o.shutdownTimeout > 0 => ~ShutdownDone')]_vars
    /\ [][(~ctx.done /\ ctx'.done /\ ~ShutdownDone) =>
            (~ShutdownDone' \/ Phase' = "Done")]_vars
    /\ []((Phase = "Cleaning" /\ ShutdownDone) =>
            now >= shutdownCtx.start + shutdownCtx.timeout)

C9_Witness ==
    /\ Phase = "Cleaning"
    /\ ctx.done
    /\ shutdownCtx.created
    /\ shutdownCtx.timeout > 0
    /\ shutdownCtx.start >= 1
    /\ ~ShutdownDone

\* C10 as stated: an adapter whose Close returned before the shutdown
\* context became done returns Close's result, never a timeout error.
C10_Original ==
    \A k \in 1..Len(finished) :
        finished[k].closedFirst => finished[k].res \in {Nil, ErrClose}

\* C10 amended: an adapter that makes its choice while Close's result is in
\* the channel and the shutdown context is not done returns exactly that
\* result.
C10_ReleaseFirst ==
    [][(/\ pc = "inCleaner"
        /\ cur = "select"
        /\ doneCh[Slot(i)] # <<>>
        /\ ~ShutdownDone
        /\ Len(finished') = Len(finished) + 1) =>
            (/\ finished'[Len(finished')].idx = Slot(i)
             /\ finished'[Len(finished')].res = Head(doneCh[Slot(i)])
             /\ finished'[Len(finished')].res.msg # "timed out")]_vars

C10_Witness ==
    /\ Len(finished) >= 1
    /\ o.cleaners[finished[1].idx].kind = "closer"
    /\ finished[1].closedFirst
    /\ finished[1].res = ErrClose
    /\ ~ShutdownDone

IsCloser(c) == c \in 1..Registered /\ o.cleaners[c].kind = "closer"

IsTimeout(e) == e.msg = "timed out"

\* C11 as stated: an adapter whose shutdown context became done before its
\* Close completed returns the timeout error.
C11_Original ==
    \A k \in 1..Len(finished) :
        (IsCloser(finished[k].idx) /\ ~finished[k].closedFirst) =>
            IsTimeout(finished[k].res)

\* C11 amended: an adapter that makes its choice while the shutdown context
\* is done and Close has delivered nothing returns at once, Close still
\* running, with a timeout error that names the resource's type and wraps
\* the context's deadline-exceeded error; the error is collected like any
\* other cleanup error.
C11_DeadlineFirst ==
    [][(/\ pc = "inCleaner"
        /\ cur = "select"
        /\ ShutdownDone
        /\ doneCh[Slot(i)] = <<>>
        /\ Len(finished') = Len(finished) + 1) =>
            (/\ finished'[Len(finished')].idx = Slot(i)
             /\ finished'[Len(finished')].res =
                    [msg |-> "timed out", typ |-> o.cleaners[Slot(i)].id,
                     wraps |-> DeadlineExceeded.msg]
             /\ closeState'[Slot(i)] = "running"
             /\ cleanupErrors' =
                    Append(cleanupErrors, finished'[Len(finished')].res))]_vars

C11_Witness ==
    /\ Len(finished) >= 1
    /\ IsCloser(finished[1].idx)
    /\ IsTimeout(finished[1].res)
    /\ finished[1].res.wraps = DeadlineExceeded.msg
    /\ closeState[finished[1].idx] = "running"
    /\ cleanupErrors = <<finished[1].res>>

\* C12: a Close call that is running keeps running until it returns on its
\* own: no step of Run ends it, not the adapter's timeout, not a later
\* cleaner and not Run's return, and it can return at any later moment.
C12_CloseNeverAborted ==
    /\ [][\A k \in Indices :
            closeState[k] = "running" =>
                \/ closeState'[k] = "running"
                \/ closeState'[k] = "returned" /\ Len(doneCh'[k]) = 1]_vars
    /\ [](\A k \in Indices : closeState[k] = "running" => ENABLED CloseReturnOf(k))

C12_Witness ==
    /\ pc = "done"
    /\ \E k \in 1..Len(finished) :
          /\ IsTimeout(finished[k].res)
          /\ closeState[finished[k].idx] = "running"
          /\ k < Len(finished)

\* the shared deadline of the cleanup phase
Deadline == shutdownCtx.start + shutdownCtx.timeout

TimedOut(c) ==
    \E m \in 1..Len(finished) : finished[m].idx = c /\ IsTimeout(finished[m].res)

\* C13 as stated (second half): a Close whose own duration is below the
\* configured timeout produces no timeout error.
C13_Original ==
    [][\A k \in Indices :
        (/\ closeState[k] = "running"
         /\ closeState'[k] = "returned"
         /\ now - closeAt[k] < o.shutdownTimeout) => ~TimedOut(k)]_vars

\* C13 amended: the timeout that counts is the shared deadline of the whole
\* cleanup phase, not Close's own duration.  An adapter reports a timeout
\* only at or after that deadline; from the deadline on it can return while
\* Close is still running, so Run does not wait for Close; an adapter that
\* returns before the deadline returns Close's result, after Close returned;
\* and a Close that returns before the deadline has not been timed out.
C13_SharedDeadline ==
    /\ [][(cur = "select" /\ Len(finished') = Len(finished) + 1) =>
            IF now < Deadline
            THEN /\ finished'[Len(finished')].res = Head(doneCh[Slot(i)])
                 /\ closeState[Slot(i)] = "returned"
            ELSE \/ finished'[Len(finished')].res =
                        TimeoutError(o.cleaners[Slot(i)].id, DeadlineExceeded)
                 \/ /\ doneCh[Slot(i)] # <<>>
                    /\ finished'[Len(finished')].res = Head(doneCh[Slot(i)])]_vars
    /\ []((pc = "inCleaner" /\ cur = "select" /\ now >= Deadline) =>
            ENABLED AdapterTimeout)
    /\ [][\A k \in Indices :
            (/\ closeState[k] = "running"
             /\ closeState'[k] = "returned"
             /\ now < Deadline) => ~TimedOut(k)]_vars

C13_Witness ==
    /\ shutdownCtx.timeout >= 1
    /\ \E m \in 1..Len(finished) :
          /\ IsTimeout(finished[m].res)
          /\ closeState[finished[m].idx] = "returned"
          /\ doneCh[finished[m].idx] = <<Nil>>
    /\ \E m \in 1..Len(finished) :
          /\ IsCloser(finished[m].idx)
          /\ finished[m].res = Nil

\* the option sequence WithCloser(c1), ..., WithCloser(cn) applied in order
RECURSIVE EachWithCloser(_, _)
EachWithCloser(cs, opts) ==
    IF cs = <<>> THEN opts
    ELSE EachWithCloser(Tail(cs), WithCloser(Head(cs), opts))

LastFinished == finished'[Len(finished')]

\* C14 as stated: WithClosers equals the sequence of WithCloser options, and
\* in a completed Run in which every Close call has completed the closers
\* count as cleaners that returned Close's results: none reports a timeout.
C14_Original ==
    /\ pc = "options" =>
          \A cs \in CloserLists : WithClosers(cs, o) = EachWithCloser(cs, o)
    /\ (/\ pc = "done"
        /\ \A c \in 1..Registered : IsCloser(c) => closeState[c] = "returned") =>
            \A m \in 1..Len(finished) :
                IsCloser(finished[m].idx) => ~IsTimeout(finished[m].res)

\* C14 amended: applied to any options, WithClosers(c1, ..., cn) leaves the options
\* that WithCloser(c1), ..., WithCloser(cn) leave, so the Run that follows is
\* the same; and an adapter that took Close's result r (not every adapter
\* whose Close completes does) moves Run exactly as
\* a context-aware cleaner that returned r: r is collected when it is not
\* nil and the loop goes on to the next cleaner.
C14_ClosersEquivalent ==
    /\ [](pc = "options" =>
            \A cs \in CloserLists : WithClosers(cs, o) = EachWithCloser(cs, o))
    /\ [][(/\ Len(finished') = Len(finished) + 1
           /\ \/ cur = "fn"
              \/ cur = "select" /\ ~IsTimeout(LastFinished.res)) =>
            (/\ LastFinished.idx = i
             /\ cur = "select" => LastFinished.res = Head(doneCh[i])
             /\ cleanupErrors' = IF LastFinished.res # Nil
                                 THEN Append(cleanupErrors, LastFinished.res)
                                 ELSE cleanupErrors
             /\ i' = i - 1
             /\ pc' = "loop")]_vars

C14_Witness ==
    /\ pc = "options"
    /\ opt.kind = "WithClosers"
    /\ Len(opt.cs) = 2
    /\ opt.cs[1] # NilArg
    /\ opt.cs[2] # NilArg
    /\ opt.cs[1] # opt.cs[2]
    /\ o.cleaners = <<CloserAdapter(opt.cs[1]), CloserAdapter(opt.cs[2])>>
    /\ o = WithCloser(opt.cs[2], WithCloser(opt.cs[1], defaultOptions))

\* the non-nil entries of an argument list, in their order
NonNil(cs) == SelectSeq(cs, LAMBDA c : c # NilArg)

Adapters(cs) == [k \in 1..Len(NonNil(cs)) |-> CloserAdapter(NonNil(cs)[k])]

\* C15: nil arguments register nothing and harm nothing: WithClosers appends
\* an adapter for each non-nil element, in the elements' order, WithCloser(nil)
\* and WithCleanup(nil) leave the options unchanged, no registered cleaner is
\* nil, and a completed Run has called Close on every registered closer.
C15_NilSkipped ==
    /\ pc = "options" =>
          /\ \A cs \in CloserLists :
                WithClosers(cs, o) =
                    [o EXCEPT !.cleaners = o.cleaners \o Adapters(cs)]
          /\ WithCloser(NilArg, o) = o
          /\ WithCleanup(NilArg, o) = o
    /\ \A c \in 1..Registered : o.cleaners[c].id # NilArg
    /\ pc = "done" => \A c \in 1..Registered : IsCloser(c) => closeState[c] # "idle"

C15_Witness ==
    /\ pc = "options"
    /\ opt = Option("WithClosers", 0, <<"r1", NilArg, "r2">>)
    /\ o.cleaners = <<CloserAdapter("r1"), CloserAdapter("r2")>>

\* what an option registers: its non-nil cleaners or closers, in order
Registers(op) ==
    CASE op.kind = "WithCleanup" ->
            [k \in 1..Len(NonNil(op.cs)) |-> FnCleaner(NonNil(op.cs)[k])]
      [] op.kind \in {"WithCloser", "WithClosers"} -> Adapters(op.cs)
      [] OTHER -> <<>>

\* C16: each option applied appends what it registers to the end of the
\* cleaner list and changes nothing that is already there, duplicates
\* included; so the list is the concatenation of the registrations in option
\* order, and a completed Run has called every entry of it once.
C16_Accumulate ==
    /\ [][(pc = "options" /\ pc' = "options" /\ <<o, opt>>' # <<o, opt>>) =>
            o'.cleaners = o.cleaners \o Registers(opt')]_vars
    /\ [](pc = "done" => \A c \in 1..Registered : Calls(c) = 1)

C16_Witness ==
    /\ pc = "done"
    /\ Registered = 2
    /\ o.cleaners[1] = o.cleaners[2]
    /\ o.cleaners[1].kind = "fn"
    /\ started = <<2, 1>>

\* C17: the signal context is armed exactly from its creation before the
\* task is called until Run returns, on every path: it is created once,
\* after the options, and a Run that has returned, with or without errors,
\* has released it.
C17_SignalScoped ==
    /\ ctx.armed <=> pc \notin {"options", "done"}
    /\ pc = "options" => ~ctx.done
    /\ pc = "done" => ctx.done

C17_Witness ==
    /\ pc = "done"
    /\ err = Boom
    /\ Len(cleanupErrors) >= 1
    /\ ~ctx.armed

\* C18: while the task has not returned, also after a signal has made the
\* signal context done, Run is blocked in the task call: the cleanup phase
\* has not begun, no cleaner has been called, Run has not returned, and none
\* of these steps is possible.
C18_TaskNotInterrupted ==
    task = "running" =>
        /\ pc = "waitTask"
        /\ started = <<>>
        /\ result = NoError
        /\ ~ENABLED BeginCleanup
        /\ ~ENABLED CallCleaner
        /\ ~ENABLED Return

C18_Witness ==
    /\ task = "running"
    /\ ctx.done
    /\ now = MaxTime
    /\ Registered >= 1
    /\ started = <<>>
    /\ pc = "waitTask"

\* C19: the cleaners run one after the other: at most one cleaner is
\* executing, a cleaner is called only after the one called before it has
\* returned, and when it is called every closer called before it has
\* completed its Close or has timed out.
C19_Sequential ==
    /\ Len(started) - Len(finished) \in {0, 1}
    /\ Len(started) > Len(finished) <=> pc = "inCleaner"
    /\ \A k \in 1..Len(finished) : finished[k].idx = started[k]
    /\ \A k \in 1..Len(started) : \A m \in 1..(k - 1) :
          IsCloser(started[m]) =>
              (closeState[started[m]] = "returned" \/ TimedOut(started[m]))

C19_Witness ==
    /\ pc = "inCleaner"
    /\ Len(started) = 2
    /\ IsCloser(started[1])
    /\ IsCloser(started[2])
    /\ TimedOut(started[1])
    /\ closeState[started[1]] = "running"
    /\ closeState[started[2]] = "running"

\* C20: one shutdown context with one deadline serves the whole cleanup
\* phase: its start and timeout never change once it exists, once done it
\* stays done, a cleaner running at or after the deadline has a done
\* context, a cleaner returns the context's error only once the deadline has
\* passed, and when one did Run's result is a non-nil error that holds it.
C20_SharedBudget ==
    /\ [][shutdownCtx.created =>
            /\ shutdownCtx'.created
            /\ shutdownCtx'.start = shutdownCtx.start
            /\ shutdownCtx'.timeout = shutdownCtx.timeout]_vars
    /\ [][ShutdownDone => ShutdownDone']_vars
    /\ []((pc = "inCleaner" /\ now >= shutdownCtx.start + o.shutdownTimeout) =>
            ShutdownDone)
    /\ [](\A m \in 1..Len(finished) :
             finished[m].res = DeadlineExceeded =>
                 now >= shutdownCtx.start + o.shutdownTimeout)
    /\ []((pc = "done" /\ \E m \in 1..Len(finished) :
                            finished[m].res = DeadlineExceeded) =>
            (/\ result # NoError
             /\ \E k \in 1..Len(result.errs) : result.errs[k] = DeadlineExceeded))

C20_Witness ==
    /\ pc = "done"
    /\ Registered = 2
    /\ shutdownCtx.timeout >= 1
    /\ finished[1].res = Nil
    /\ finished[2].res = DeadlineExceeded
    /\ result = [joined |-> TRUE, errs |-> <<DeadlineExceeded>>]

\* a cleaner registered with WithCleanup has been called and has not returned
InFnCleaner == pc = "inCleaner" /\ cur = "fn"

\* C21: while a cleaner registered with WithCleanup has not returned, also
\* after the shutdown context is done, the loop is blocked in it: no further
\* cleaner is called, Run does not return, and the only step that ends the
\* wait is that cleaner's own return with a result of its own.
C21_FnCleanerBlocks ==
    /\ [](InFnCleaner =>
            /\ ~ENABLED CallCleaner
            /\ ~ENABLED AdapterTimeout
            /\ ~ENABLED Return)
    /\ [][InFnCleaner =>
            /\ started' = started
            /\ result' = result
            /\ \/ /\ finished' = finished
                  /\ pc' = pc
                  /\ i' = i
               \/ /\ Len(finished') = Len(finished) + 1
                  /\ finished'[Len(finished')].idx = started[Len(started)]
                  /\ finished'[Len(finished')].res.msg # "timed out"]_vars

C21_Witness ==
    /\ InFnCleaner
    /\ ShutdownDone
    /\ now >= shutdownCtx.start + shutdownCtx.timeout + 1
    /\ Len(started) = 1
    /\ Registered = 2

\* ---------------------------------------------------------------- progress
\* a step of the goroutine that called Run, from the task's return onwards;
\* the call of a WithCleanup cleaner that returns is part of it
RunStep ==
    \/ BeginCleanup
    \/ CallCleaner
    \/ CleanerReturn
    \/ AdapterReceive
    \/ AdapterTimeout
    \/ Return

\* The goroutine that called Run takes a step when it can and the clock
\* advances.  Nothing is assumed of the Close calls, of the task or of the
\* signals: a Close may never return.
FairSpec == Spec /\ WF_vars(RunStep) /\ WF_vars(Tick)

\* C22: once the task has returned nothing keeps Run from opening the
\* shutdown window, and when the window's deadline lies within the clock's
\* range Run returns, whether or not any Close call ever returns.
C22_Terminates ==
    /\ [](pc = "cleanup" => ENABLED BeginCleanup)
    /\ (shutdownCtx.created /\ Deadline <= MaxTime) ~> (pc = "done")

C22_Witness ==
    /\ pc = "done"
    /\ Registered = 2
    /\ \A k \in 1..Registered : IsCloser(k) /\ closeState[k] = "running"
    /\ err = Nil

\* C23: Close is called once per registered closer: a Close call starts in
\* the very step in which the closer's adapter is called, whether or not the
\* shutdown context is done then, it never starts a second time, and in a
\* completed Run every registered closer's Close has been called.
C23_CloseOncePerCloser ==
    /\ [][\A k \in Indices :
            /\ (closeState[k] # "running" /\ closeState'[k] = "running") =>
                  /\ closeState[k] = "idle"
                  /\ started' = Append(started, k)
            /\ (IsCloser(k) /\ started' = Append(started, k)) =>
                  (closeState[k] = "idle" /\ closeState'[k] = "running")]_vars
    /\ [](pc = "done" =>
            \A c \in 1..Registered :
                IsCloser(c) => (Calls(c) = 1 /\ closeState[c] \in {"running", "returned"}))

C23_Witness ==
    /\ pc = "done"
    /\ shutdownCtx.timeout <= 0
    /\ Registered = 2
    /\ o.cleaners[1] = o.cleaners[2]
    /\ \A c \in 1..Registered : IsCloser(c) /\ TimedOut(c) /\ closeState[c] # "idle"

\* the step in which the adapter that is selecting returns
AdapterReturns ==
    /\ pc = "inCleaner"
    /\ cur = "select"
    /\ Len(finished') = Len(finished) + 1

\* C24 as stated: an adapter that returns while Close's result is in its
\* channel returns that result.
C24_Original ==
    [][(AdapterReturns /\ doneCh[Slot(i)] # <<>>) =>
            LastFinished.res = Head(doneCh[Slot(i)])]_vars

\* C24 amended: an adapter returns either the value in its channel,
\* unchanged, or the timeout error, and the timeout error only when the
\* shutdown context is done at that moment; with Close's result in the
\* channel and the context done both outcomes are possible.
C24_ResultOrDeadline ==
    /\ [][AdapterReturns =>
            \/ /\ doneCh[Slot(i)] # <<>>
               /\ LastFinished.res = Head(doneCh[Slot(i)])
               /\ doneCh'[Slot(i)] = <<>>
            \/ /\ ShutdownDone
               /\ IsTimeout(LastFinished.res)
               /\ doneCh' = doneCh]_vars
    /\ []((pc = "inCleaner" /\ cur = "select" /\ doneCh[Slot(i)] # <<>>) =>
            /\ ENABLED AdapterReceive
            /\ ShutdownDone => ENABLED AdapterTimeout)

C24_Witness ==
    /\ Len(finished) >= 1
    /\ IsCloser(finished[1].idx)
    /\ IsTimeout(finished[1].res)
    /\ closeState[finished[1].idx] = "returned"
    /\ doneCh[finished[1].idx] = <<ErrClose>>
    /\ finished[1].closedFirst
    /\ shutdownCtx.timeout >= 1

\* C25: the send on done never blocks: a channel holds at most the one value
\* its goroutine sends, while a Close call is running its channel is empty,
\* so the goroutine can deliver and finish whenever Close returns, whether
\* the adapter is still selecting, took the timeout or Run has returned; a
\* value left in a channel belongs to a goroutine that has finished.
C25_SendNeverBlocks ==
    \A k \in Indices :
        /\ Len(doneCh[k]) <= 1
        /\ closeState[k] = "running" =>
              (doneCh[k] = <<>> /\ ENABLED CloseReturnOf(k))
        /\ doneCh[k] # <<>> => closeState[k] = "returned"

C25_Witness ==
    /\ pc = "done"
    /\ Registered = 2
    /\ TimedOut(2) /\ closeState[2] = "returned" /\ doneCh[2] = <<Nil>>
    /\ IsCloser(1) /\ ~TimedOut(1) /\ closeState[1] = "returned" /\ doneCh[1] = <<>>

\* the error value e is one of the errors of Run's result
InResult(e) == \E j \in 1..Len(result.errs) : result.errs[j] = e

\* C26: when Run has returned, every Close call that has not returned belongs
\* to an adapter that returned a timeout error naming that closer, and this
\* error is in Run's result; so after a nil result no Close call is running.
C26_RunningCloseReported ==
    pc = "done" =>
        /\ \A k \in 1..Registered :
              closeState[k] = "running" =>
                  /\ IsCloser(k)
                  /\ TimedOut(k)
                  /\ InResult(TimeoutError(o.cleaners[k].id, DeadlineExceeded))
                  /\ result.joined
        /\ result = NoError => \A k \in Indices : closeState[k] # "running"

C26_Witness ==
    /\ pc = "done"
    /\ Registered = 2
    /\ closeState[1] = "running"
    /\ closeState[2] = "returned"
    /\ o.cleaners[1].id # o.cleaners[2].id
    /\ err = Boom
    /\ Len(result.errs) = 2

\* a signal is delivered to the signal context during the Cleaning phase
SignalInCleaning ==
    /\ Phase = "Cleaning"
    /\ Phase' = "Cleaning"
    /\ ~ctx.done
    /\ ctx'.done

\* C27: during the Cleaning phase the signal context stays armed and a
\* signal can arrive; its arrival marks the signal context done and changes
\* nothing else: the shutdown context is as done as it was, the cleaners
\* called and returned, the collected errors and the Close calls are the
\* same, and Run can take exactly the steps it could take before.
C27_SignalInert ==
    /\ [](Phase = "Cleaning" => (ctx.armed /\ (~ctx.done => ENABLED Signal)))
    /\ [][SignalInCleaning =>
            /\ ctx'.armed
            /\ UNCHANGED <<pc, o, task, err, shutdownCtx, i, cur, cleanupErrors,
                           started, finished, closeState, doneCh, now, result>>
            /\ ShutdownDone' = ShutdownDone
            /\ (ENABLED RunStep)' = ENABLED RunStep
            /\ (ENABLED AdapterTimeout)' = ENABLED AdapterTimeout]_vars

C27_Witness ==
    /\ pc = "inCleaner"
    /\ cur = "select"
    /\ ctx.done
    /\ ctx.armed
    /\ ~ShutdownDone
    /\ shutdownCtx.timeout >= 1
    /\ Len(started) = 2

\* the options loop applies one option
OptionStep == pc = "options" /\ pc' = "options" /\ <<o, opt>>' # <<o, opt>>

\* C28: the shutdown timeout starts as the default, a WithTimeout option
\* replaces it by its argument and no other option touches it, and the
\* shutdown context is created with the value the options loop left.  With a
\* value of zero or less the context is done, with the deadline error, from
\* its creation on, and the completed Run has still called every registered
\* cleaner once, last registered first.
C28_LastTimeoutWins ==
    /\ o.shutdownTimeout = DefaultTimeout
    /\ [][OptionStep =>
            /\ opt'.kind = "WithTimeout" =>
                  (o'.shutdownTimeout = opt'.d /\ o'.cleaners = o.cleaners)
            /\ opt'.kind # "WithTimeout" =>
                  o'.shutdownTimeout = o.shutdownTimeout]_vars
    /\ [][pc # "options" => o'.shutdownTimeout = o.shutdownTimeout]_vars
    /\ [](shutdownCtx.created =>
            /\ shutdownCtx.timeout = o.shutdownTimeout
            /\ shutdownCtx.timeout <= 0 =>
                  /\ ShutdownDone
                  /\ pc # "done" => ShutdownErr = DeadlineExceeded)
    /\ []((pc = "done" /\ shutdownCtx.timeout <= 0) =>
            started = [k \in 1..Registered |-> Registered - k + 1])

C28_Witness ==
    /\ pc = "done"
    /\ shutdownCtx.timeout = 0
    /\ Registered = 2
    /\ started = <<2, 1>>
    /\ o.cleaners[1].kind = "closer"
    /\ o.cleaners[2].kind = "fn"
    /\ finished[1].res = DeadlineExceeded

\* ---------------------------------------------------------------- HTTPTask
\* Run with HTTPTask(srv) as its task and no options but WithTimeout.
\* errCh := make(chan error, 1); go func() { ... srv.ListenAndServe() ... }()
HTTPTaskCall ==
    /\ pc = "callTask"
    /\ task' = "running"
    /\ taskCalls' = taskCalls + 1
    /\ taskCtx' = "signal"
    /\ pc' = "waitTask"
    /\ http' = [pc |-> "select", srv |-> "serving", srvErr |-> Nil,
                errCh |-> <<>>, closed |-> FALSE]
    /\ UNCHANGED <<o, ctx, err, shutdownCtx, i, cur, cleanupErrors,
                   started, finished, closeState, doneCh, early, now, result, opt,
                   closeAt>>

\* the goroutine: ListenAndServe returns e; e is sent unless it is
\* ErrServerClosed, and errCh is closed
ListenAndServeReturn ==
    /\ http.srv = "serving"
    /\ \E e \in {ErrServerClosed, ErrListen} :
          http' = [http EXCEPT !.srv = "returned",
                               !.srvErr = e,
                               !.errCh = IF e # ErrServerClosed THEN Append(@, e) ELSE @,
                               !.closed = TRUE]
    /\ UNCHANGED <<pc, o, ctx, task, taskCalls, taskCtx, err, shutdownCtx, i, cur,
                   cleanupErrors, started, finished, closeState, doneCh, early,
                   now, result, opt, closeAt>>

\* the task returns e to Run
HTTPTaskReturn(e) ==
    /\ pc = "waitTask"
    /\ task = "running"
    /\ http.pc = "select"
    /\ err' = e
    /\ task' = "returned"
    /\ pc' = "cleanup"
    /\ UNCHANGED <<o, ctx, taskCalls, taskCtx, shutdownCtx, i, cur,
                   cleanupErrors, started, finished, closeState, doneCh,
                   early, now, result, opt, closeAt>>

\* select { case err := <-errCh: return err ... }: a buffered error, or the
\* zero value once errCh is closed and empty
HTTPTaskReceive ==
    /\ http.errCh # <<>> \/ http.closed
    /\ HTTPTaskReturn(IF http.errCh # <<>> THEN Head(http.errCh) ELSE Nil)
    /\ http' = [http EXCEPT !.pc = "returned",
                            !.errCh = IF @ # <<>> THEN Tail(@) ELSE @]

\* select { ... case <-ctx.Done(): return nil }
HTTPTaskCtxDone ==
    /\ ctx.done
    /\ HTTPTaskReturn(Nil)
    /\ http' = [http EXCEPT !.pc = "returned"]

HTTPNext ==
    \/ ApplyWithTimeout
    \/ NotifyContext
    \/ HTTPTaskCall
    \/ ListenAndServeReturn
    \/ Signal
    \/ HTTPTaskReceive
    \/ HTTPTaskCtxDone
    \/ BeginCleanup
    \/ Return
    \/ Tick

HTTPSpec == Init /\ [][HTTPNext]_vars

\* C29 as stated: when ListenAndServe has returned an error other than
\* ErrServerClosed before HTTPTask returns, HTTPTask returns that error.
C29_Original ==
    [][(/\ http.pc = "select"
        /\ http'.pc = "returned"
        /\ http.srv = "returned"
        /\ http.srvErr # ErrServerClosed) => err' = http.srvErr]_vars

\* the failure is lost: the server failed before the task returned, the
\* error is still in errCh and Run has returned nil
C29_Witness ==
    /\ pc = "done"
    /\ http.srvErr = ErrListen
    /\ http.errCh = <<ErrListen>>
    /\ err = Nil
    /\ result = NoError

\* ------------------------------------------------------------ repeated Runs
\* the locals of a Run that has returned are gone; what the next call starts
\* with is what Init describes, taskCalls aside, which goes on counting
FreshLocals ==
    /\ ctx' = [armed |-> FALSE, done |-> FALSE]
    /\ task' = "notCalled"
    /\ taskCtx' = "none"
    /\ err' = Nil
    /\ shutdownCtx' = NoCtx
    /\ i' = 0
    /\ cur' = "none"
    /\ cleanupErrors' = <<>>
    /\ started' = <<>>
    /\ finished' = <<>>
    /\ closeState' = [k \in Indices |-> "idle"]
    /\ doneCh' = [k \in Indices |-> <<>>]
    /\ early' = FALSE
    /\ now' = 0
    /\ result' = NoError
    /\ opt' = NoOpt
    /\ closeAt' = [k \in Indices |-> 0]
    /\ UNCHANGED <<taskCalls, http>>

\* bug: the options live in a package-level variable that Run never resets
RunAgainKeepsOptions ==
    /\ pc = "done"
    /\ taskCalls < MaxRuns
    /\ pc' = "options"
    /\ o' = o
    /\ FreshLocals

\* Run is called again after it has returned: o := defaultOptions()
RunAgain ==
    /\ pc = "done"
    /\ taskCalls < MaxRuns
    /\ pc' = "options"
    /\ o' = defaultOptions
    /\ FreshLocals

RepeatNext ==
    \/ Next
    \/ RunAgain

RepeatSpec == Init /\ [][RepeatNext]_vars

\* C30: the options, the cleaner list among them, change only while the
\* options loop applies options; from the creation of the signal context to
\* Run's return they stay as they are.  The next Run starts from the default
\* options with an empty cleaner list, so the cleaners it calls are the ones
\* its own options registered.
C30_ListFrozen ==
    /\ [][pc' # "options" => o' = o]_vars
    /\ [][(pc = "done" /\ pc' # "done") =>
            /\ pc' = "options"
            /\ o' = [shutdownTimeout |-> DefaultTimeout, cleaners |-> <<>>]
            /\ started' = <<>>
            /\ cleanupErrors' = <<>>]_vars
    /\ []((pc = "options" /\ opt = NoOpt) => o.cleaners = <<>>)
    /\ [](\A k \in 1..Len(started) : started[k] \in 1..Registered)

C30_Witness ==
    /\ pc = "done"
    /\ taskCalls = 2
    /\ Registered = 0
    /\ started = <<>>
    /\ result = NoError

====
